---- MODULE Spec2Model ----
(***************************************************************************)
(* The merge_vars action plugin (plugins/action/merge_vars.py): one run of *)
(* ActionModule.run as a state machine.  Strings that the code takes apart *)
(* (file names, literal paths) are sequences of one-character strings;     *)
(* dictionary keys are TLA+ strings.                                       *)
(***************************************************************************)
EXTENDS Integers, Sequences, FiniteSets, TLC

(***************************************************************************)
(* Bounds of the model.                                                    *)
(***************************************************************************)
\* longest 'files' option
MaxFiles == 2
\* longest 'literals' option
MaxLits == 2
\* the most load_from_file calls that MaxFiles entries resolve to (the directory
\* holds two files); a run is not followed beyond that many calls
MaxLoads == 2 * MaxFiles

(***************************************************************************)
(* Values: a Python value is a record with a type tag; a dict carries a    *)
(* function from keys to values, an int its number, None nothing.          *)
(***************************************************************************)
EmptyDict == [k \in {} |-> 0]

None == [t |-> "none", v |-> 0, m |-> EmptyDict]

IntV(n) == [t |-> "int", v |-> n, m |-> EmptyDict]

Dict(f) == [t |-> "dict", v |-> 0, m |-> f]

\* isinstance(x, dict)
IsDict(x) == x.t = "dict"

\* d.get(k): the value, or None when the key is missing
Get(d, k) == IF k \in DOMAIN d THEN d[k] ELSE None

\* d[k] = v on a dict
Put(d, k, v) == [j \in (DOMAIN d) \cup {k} |-> IF j = k THEN v ELSE d[j]]

(***************************************************************************)
(* Strings as character sequences.                                         *)
(***************************************************************************)
\* the characters used, in code point order
Alphabet == <<".", "/", "1", "2", "a", "b", "c", "d", "f", "l", "m", "n", "o", "p", "q", "s", "t", "u", "w", "x", "y", "z">>

Ord(c) == CHOOSE i \in 1..Len(Alphabet) : Alphabet[i] = c

RECURSIVE Str(_)
\* the string a character sequence spells
Str(cs) == IF cs = <<>> THEN "" ELSE Head(cs) \o Str(Tail(cs))

RECURSIVE StrLess(_, _)
\* s < t on Python strings
StrLess(s, t) ==
    IF t = <<>> THEN FALSE
    ELSE IF s = <<>> THEN TRUE
    ELSE IF Head(s) # Head(t) THEN Ord(Head(s)) < Ord(Head(t))
    ELSE StrLess(Tail(s), Tail(t))

RECURSIVE Sorted(_)
\* list.sort() of a collection of distinct strings
Sorted(S) ==
    IF S = {} THEN <<>>
    ELSE LET lo == CHOOSE s \in S : \A t \in S \ {s} : StrLess(s, t)
         IN <<lo>> \o Sorted(S \ {lo})

RECURSIVE Split(_)
\* path_str.split('.')
Split(s) ==
    IF \A i \in 1..Len(s) : s[i] # "." THEN <<s>>
    ELSE LET i == CHOOSE j \in 1..Len(s) : s[j] = "." /\ \A h \in 1..(j - 1) : s[h] # "."
         IN <<SubSeq(s, 1, i - 1)>> \o Split(SubSeq(s, i + 1, Len(s)))

\* path.join(source, filename)
Join(source, filename) == source \o <<"/">> \o filename

\* path.splitext(filename)[-1][1:]
Extension(filename) ==
    LET n == Len(filename)
        seps == {i \in 1..n : filename[i] = "/"}
        start == IF seps = {} THEN 1 ELSE (CHOOSE i \in seps : \A j \in seps : j <= i) + 1
        dots == {i \in start..n : filename[i] = "."}
        dot == IF dots = {} THEN 0 ELSE CHOOSE i \in dots : \A j \in dots : j <= i
    IN IF dot = 0 \/ (\A i \in start..dot : filename[i] = ".") THEN <<>>
       ELSE SubSeq(filename, dot + 1, n)

(***************************************************************************)
(* The environment of a run: the file system, the loader, the variables.   *)
(***************************************************************************)
F1 == <<"f", "1", ".", "y", "m", "l">>

F2 == <<"f", "2", ".", "t", "x", "t">>

D1 == <<"d", "1">>

NOPE == <<"n", "o", "p", "e">>

A_YML == <<"a", ".", "y", "m", "l">>

B_YML == <<"b", ".", "y", "m", "l">>

SUB == <<"s", "u", "b">>

YML == <<"y", "m", "l">>

\* os.listdir(source): d1 holds b.yml, a.yml and the directory sub
listdir(source) == IF source = D1 THEN {B_YML, A_YML, SUB} ELSE {}

\* the parsed content of each regular file of the file system
FileContents ==
    (F1 :> ("a" :> Dict("x" :> IntV(1))))
    @@ (F2 :> (("a" :> Dict("y" :> IntV(2))) @@ ("b" :> IntV(3))))
    @@ (Join(D1, A_YML) :> ("a" :> Dict("b" :> IntV(2))))
    @@ (Join(D1, B_YML) :> ("b" :> Dict("q" :> IntV(1))))

\* the directories of the file system
Directories == {D1, Join(D1, SUB)}

\* path.isfile(p)
isfile(p) == p \in DOMAIN FileContents

\* path.isdir(p)
isdir(p) == p \in Directories

\* self._loader.load_from_file(filename): the parsed content of the file
load_from_file(filename) == FileContents[filename]

\* the files the loader may fail to parse: those that are no .yml files
may_fail_to_load(filename) == Extension(filename) # YML

\* the entries a 'files' option is made of
SourceSet == {F1, F2, D1, NOPE}

\* task_vars: the variables visible to the run before it starts
TaskVarsSet == {EmptyDict, ("a" :> Dict("w" :> IntV(7))) @@ ("b" :> Dict("q" :> IntV(1)))}

\* variable_manager.extra_vars: the --extra-vars
ExtraVarsSet == {EmptyDict, "a" :> Dict("w" :> IntV(7))}

\* values of the 'extensions' option when it is given
ExtensionsSet == {<<>>, <<YML>>}

Lit(p, v) == [ok |-> TRUE, path |-> p, value |-> v]

\* an item of 'literals' that is no dict with 'path' and 'value'
BadLit == [ok |-> FALSE, path |-> <<>>, value |-> None]

\* the items a 'literals' option is made of
LiteralSet ==
    { Lit(<<"a", ".", "b", ".", "c">>, IntV(5)),
      Lit(<<"a", ".", "z">>, IntV(9)),
      Lit(<<>>, IntV(1)),
      Lit(<<"b">>, None),
      BadLit }

SeqsUpTo(S, n) == UNION {[1..k -> S] : k \in 0..n}

\* VALID_ARGUMENTS with one more option let through
VALID_ARGUMENTS_lax == {"files", "literals", "ignore_missing_files", "extensions", "hash_behaviour"}

VALID_ARGUMENTS == {"files", "literals", "ignore_missing_files", "extensions"}

(***************************************************************************)
(* The pure functions of the module.                                       *)
(***************************************************************************)
RECURSIVE merge_hash(_, _)
\* ansible.utils.vars.merge_hash(x, y) with its defaults (recursive, lists replaced)
merge_hash(x, y) ==
    [k \in (DOMAIN x) \cup (DOMAIN y) |->
        IF k \notin DOMAIN y THEN x[k]
        ELSE IF k \notin DOMAIN x THEN y[k]
        ELSE IF IsDict(x[k]) /\ IsDict(y[k]) THEN Dict(merge_hash(x[k].m, y[k].m))
        ELSE y[k]]

RECURSIVE deep_diff_before_keys(_, _, _)
\* deep_diff going through the keys of d1 only, blind to the keys d2 adds
deep_diff_before_keys(d1, d2, path) ==
    UNION { LET new_path == IF path # "" THEN path \o "." \o key ELSE key
            IN IF key \notin DOMAIN d2 THEN {<<new_path, d1[key], None>>}
               ELSE IF IsDict(d1[key]) /\ IsDict(d2[key])
                    THEN deep_diff_before_keys(d1[key].m, d2[key].m, new_path)
               ELSE IF d1[key] # d2[key] THEN {<<new_path, d1[key], d2[key]>>}
               ELSE {}
          : key \in DOMAIN d1 }

\* deep_diff comparing two mappings as wholes instead of recursing into them
deep_diff_flat(d1, d2, path) ==
    { <<IF path # "" THEN path \o "." \o key ELSE key,
        IF key \in DOMAIN d1 THEN d1[key] ELSE None,
        IF key \in DOMAIN d2 THEN d2[key] ELSE None>>
      : key \in {j \in (DOMAIN d1) \cup (DOMAIN d2) :
                    j \notin DOMAIN d1 \/ j \notin DOMAIN d2 \/ d1[j] # d2[j]} }

RECURSIVE deep_diff(_, _, _)
\* deep_diff(d1, d2, path): the entries of the returned list (its order is that of
\* a Python set of keys, and no path occurs twice)
deep_diff(d1, d2, path) ==
    UNION { LET new_path == IF path # "" THEN path \o "." \o key ELSE key
            IN IF key \notin DOMAIN d1 THEN {<<new_path, None, d2[key]>>}
               ELSE IF key \notin DOMAIN d2 THEN {<<new_path, d1[key], None>>}
               ELSE IF IsDict(d1[key]) /\ IsDict(d2[key])
                    THEN deep_diff(d1[key].m, d2[key].m, new_path)
               ELSE IF d1[key] # d2[key] THEN {<<new_path, d1[key], d2[key]>>}
               ELSE {}
          : key \in (DOMAIN d1) \cup (DOMAIN d2) }

RECURSIVE preseed_always(_, _, _)
\* preseed copying from task_vars whether or not the target holds the key
preseed_always(ks, tv, st) ==
    IF ks = {} THEN st
    ELSE LET k == CHOOSE j \in ks : TRUE
             nx == IF k \in DOMAIN tv
                   THEN [target |-> Put(st.target, k, tv[k]), orig |-> Put(st.orig, k, tv[k])]
                   ELSE st
         IN preseed_always(ks \ {k}, tv, nx)

RECURSIVE preseed(_, _, _)
\* the pre-seeding loop over cur_file_vars (a set of keys ks): [target, orig]
preseed(ks, tv, st) ==
    IF ks = {} THEN st
    ELSE LET k == CHOOSE j \in ks : TRUE
             nx == IF k \notin DOMAIN st.target /\ k \in DOMAIN tv
                   THEN [target |-> Put(st.target, k, tv[k]), orig |-> Put(st.orig, k, tv[k])]
                   ELSE st
         IN preseed(ks \ {k}, tv, nx)

\* the literal's top-level key copied from task_vars when the target lacks it
seed_literal(target, tv, k) ==
    IF k \notin DOMAIN target /\ k \in DOMAIN tv THEN Put(target, k, tv[k]) ELSE target

RECURSIVE walk(_, _)
\* 'current' after the traversal of keys[:-1], intermediate dicts created
walk(current, keys) ==
    IF Len(keys) <= 1 THEN current
    ELSE LET key == Head(keys)
         IN IF key \notin DOMAIN current \/ ~IsDict(current[key])
            THEN walk(EmptyDict, Tail(keys))
            ELSE walk(current[key].m, Tail(keys))

\* whether the literal marks the run changed: current.get(keys[-1]) != new_value
literal_changed(target, keys, new_value) ==
    Get(walk(target, keys), keys[Len(keys)]) # new_value

RECURSIVE assign_fresh(_, _, _)
\* assign creating every intermediate dict anew, whatever the key held
assign_fresh(current, keys, new_value) ==
    IF Len(keys) = 1 THEN Put(current, keys[1], new_value)
    ELSE Put(current, Head(keys), Dict(assign_fresh(EmptyDict, Tail(keys), new_value)))

RECURSIVE assign(_, _, _)
\* the target after the traversal and current[keys[-1]] = new_value
assign(current, keys, new_value) ==
    IF Len(keys) = 1 THEN Put(current, keys[1], new_value)
    ELSE LET key == Head(keys)
             child == IF key \notin DOMAIN current \/ ~IsDict(current[key])
                      THEN EmptyDict ELSE current[key].m
         IN Put(current, key, Dict(assign(child, Tail(keys), new_value)))

\* the list of keys of a path string
path_keys(path_str) == [i \in 1..Len(Split(path_str)) |-> Str(Split(path_str)[i])]

\* the extension test of the load loop; a is the task's args, and
\* self.valid_extensions is None when 'extensions' is not among them
extension_allowed(a, filename) ==
    \/ "extensions" \notin a.keys
    \/ a.extensions = <<>>
    \/ \E i \in 1..Len(a.extensions) : a.extensions[i] = Extension(filename)

\* cannot_merge testing the last key of the path instead of the first
cannot_merge_last(keys, ev) == keys[Len(keys)] \in DOMAIN ev

\* line 192: the literal's top-level key is one of the extra_vars
cannot_merge(keys, ev) == keys[1] \in DOMAIN ev

\* protect with the assignment of line 168 left out
protect_warn_only(ks, target, ev) == target

RECURSIVE protect(_, _, _)
\* the keys of the target that extra_vars also holds, set to the extra_vars value
protect(ks, target, ev) ==
    IF ks = {} THEN target
    ELSE LET k == CHOOSE j \in ks : TRUE
         IN protect(ks \ {k}, Put(target, k, ev[k]), ev)

\* is_literal_item taking every item for a path/value pair
is_literal_item_any(item) == TRUE

\* line 182: the item is a dict that holds 'path' and 'value'
is_literal_item(item) == item.ok

\* the seeded value being the object task_vars holds, as without deepcopy
seeded_object_alias == "task_vars"

\* deepcopy(task_vars[k]) of lines 157 and 197: the seeded value is a new object
seeded_object == "own"

\* the owners of the target's top-level values once the keys ks are there: a key
\* that was not there before has just been seeded
seeded_owner(owners, ks) ==
    [k \in ks |-> IF k \in DOMAIN owners THEN owners[k] ELSE seeded_object]

\* the owners after merge_hash(target, cur_file_vars): a value under a key of the
\* file is the file's or a newly merged dict, any other value is the object it was
merged_owner(owners, file_keys) ==
    [k \in (DOMAIN owners) \cup file_keys |-> IF k \in file_keys THEN "own" ELSE owners[k]]

\* whose object the literal writes into below the top level (lines 203-211):
\* "own" when the write is at the top level of the target or into a new dict
written_object(target, owners, keys) ==
    IF Len(keys) >= 2 /\ keys[1] \in DOMAIN target /\ IsDict(target[keys[1]])
    THEN owners[keys[1]]
    ELSE "own"

(***************************************************************************)
(* The state of one run of ActionModule.run.                               *)
(***************************************************************************)
VARIABLES
    args,                           \* self._task.args
    task_vars,                      \* task_vars
    extra_vars,                     \* variable_manager.extra_vars
    pc,                             \* where the run stands
    src_idx,                        \* position of the loop over args['files']
    files,                          \* the local list 'files'
    included,                       \* self._result['ansible_included_var_files']
    aliased,                        \* 'files' and the result's list are one list object
    idx,                            \* position of the loop over 'files'
    hostvars_to_update,             \* the merge target
    hostvars_to_update_files_orig,  \* the seeded task_vars values, for the diff
    changed,                        \* self._result['changed']
    lit_idx,                        \* position of the loop over args['literals']
    error,                          \* the AnsibleActionFail raised, if any
    display,                        \* the messages given to self._display (v and warning)
    ansible_facts,                  \* self._result['ansible_facts']
    owner,                          \* whose object each top-level value of the target is
    loaded,                         \* history: the file names given to load_from_file
    files_target,                   \* history: the target when the diff was taken
    lit_target,                     \* history: the target the last literal was walked on
    lit_changed,                    \* history: the last literal marked the run changed
    any_lit_changed,                \* history: some literal marked the run changed
    run,                            \* which run of the task this is: the first or a re-run
    first_facts,                    \* the ansible_facts the first run returned
    pure                            \* the call of a pure function under study, if any

vars == <<args, task_vars, extra_vars, pc, src_idx, files, included, aliased, idx,
          hostvars_to_update, hostvars_to_update_files_orig, changed, lit_idx, error,
          display, ansible_facts, owner, loaded, files_target, lit_target, lit_changed,
          any_lit_changed, run, first_facts, pure>>

inputs == <<args, task_vars, extra_vars>>

\* what the steps of a run before its return leave alone
outside == <<run, first_facts, pure>>

\* what the pure-function calls leave alone: the whole run
run_vars == <<args, task_vars, extra_vars, pc, src_idx, files, included, aliased, idx,
              hostvars_to_update, hostvars_to_update_files_orig, changed, lit_idx, error,
              display, ansible_facts, owner, loaded, files_target, lit_target, lit_changed,
              any_lit_changed, run, first_facts>>

\* no pure-function call is under study; out holds the lists a call returned
NoCall == [fn |-> "", T |-> EmptyDict, k |-> "", v |-> None, out |-> <<>>]

NoError == [msg |-> "", subject |-> <<>>]

Fail(msg, subject) == [msg |-> msg, subject |-> subject]

Message(msg, key, file) == [msg |-> msg, key |-> key, file |-> file]

\* args['literals'] as the loop reads it
Literals == IF "literals" \in args.keys THEN args.literals ELSE <<>>

Init ==
    /\ \E hasFiles \in BOOLEAN, fl \in SeqsUpTo(SourceSet, MaxFiles),
          lk \in {"absent", "notalist", "list"}, ll \in SeqsUpTo(LiteralSet, MaxLits),
          ign \in BOOLEAN, hasExt \in BOOLEAN, ext \in ExtensionsSet, other \in BOOLEAN :
            /\ ~hasFiles => fl = <<>>
            /\ lk # "list" => ll = <<>>
            /\ ~hasExt => ext = <<>>
            \* an unrecognised option is drawn beside at most one source and one literal
            /\ other => (Len(fl) <= 1 /\ Len(ll) <= 1)
            /\ args = [ keys |-> (IF hasFiles THEN {"files"} ELSE {})
                                 \cup (IF lk # "absent" THEN {"literals"} ELSE {})
                                 \cup (IF ign THEN {"ignore_missing_files"} ELSE {})
                                 \cup (IF hasExt THEN {"extensions"} ELSE {})
                                 \cup (IF other THEN {"hash_behaviour"} ELSE {}),
                        files |-> fl,
                        literals |-> ll,
                        literals_is_list |-> (lk # "notalist"),
                        ignore_missing_files |-> ign,
                        extensions |-> ext ]
    /\ task_vars \in TaskVarsSet
    /\ extra_vars \in ExtraVarsSet
    \* ansible hands the --extra-vars to the task among its task_vars
    /\ \A k \in DOMAIN extra_vars : k \in DOMAIN task_vars /\ task_vars[k] = extra_vars[k]
    /\ pc = "start"
    /\ src_idx = 1
    /\ files = <<>>
    /\ included = <<>>
    /\ aliased = FALSE
    /\ idx = 1
    /\ hostvars_to_update = EmptyDict
    /\ hostvars_to_update_files_orig = EmptyDict
    /\ changed = FALSE
    /\ lit_idx = 1
    /\ error = NoError
    /\ display = <<>>
    /\ ansible_facts = EmptyDict
    /\ owner = EmptyDict
    /\ loaded = <<>>
    /\ files_target = EmptyDict
    /\ lit_target = EmptyDict
    /\ lit_changed = FALSE
    /\ any_lit_changed = FALSE
    /\ run = 1
    /\ first_facts = EmptyDict
    /\ pure = NoCall

\* lines 94-126: the checks of the arguments, and the empty target
Validate ==
    /\ pc = "start"
    /\ changed' = FALSE
    /\ hostvars_to_update' = EmptyDict
    /\ owner' = EmptyDict
    /\ IF args.keys \ VALID_ARGUMENTS # {}
       THEN /\ pc' = "failed"
            /\ error' = Fail("not valid options", <<>>)
            /\ UNCHANGED <<files, included, aliased>>
       ELSE IF "files" \notin args.keys /\ "literals" \notin args.keys
       THEN /\ pc' = "failed"
            /\ error' = Fail("files or literals should be present", <<>>)
            /\ UNCHANGED <<files, included, aliased>>
       ELSE IF "files" \in args.keys
       THEN /\ pc' = "resolve"
            /\ files' = <<>>
            /\ included' = <<>>
            /\ aliased' = TRUE
            /\ UNCHANGED error
       ELSE /\ pc' = "literals"
            /\ UNCHANGED <<files, included, aliased, error>>
    /\ UNCHANGED <<inputs, outside, src_idx, idx, hostvars_to_update_files_orig, lit_idx,
                   display, ansible_facts, loaded, files_target, lit_target, lit_changed,
                   any_lit_changed>>

\* lines 127-137: one entry of args['files']
ResolveSource ==
    /\ pc = "resolve"
    /\ src_idx <= Len(args.files)
    /\ LET source == args.files[src_idx]
       IN IF isfile(source)
          THEN /\ files' = Append(files, source)
               /\ included' = IF aliased THEN Append(included, source) ELSE included
               /\ src_idx' = src_idx + 1
               /\ UNCHANGED <<aliased, pc, error, display>>
          ELSE IF isdir(source)
          THEN /\ files' = files \o Sorted({Join(source, filename) : filename \in
                                            {f \in listdir(source) : isfile(Join(source, f))}})
               /\ aliased' = FALSE
               /\ src_idx' = src_idx + 1
               /\ UNCHANGED <<included, pc, error, display>>
          ELSE IF args.ignore_missing_files
          THEN /\ display' = Append(display, Message("missing source ignored", "", source))
               /\ src_idx' = src_idx + 1
               /\ UNCHANGED <<files, included, aliased, pc, error>>
          ELSE /\ pc' = "failed"
               /\ error' = Fail("source does not exist", source)
               /\ UNCHANGED <<files, included, aliased, src_idx, display>>
    /\ UNCHANGED <<inputs, outside, idx, hostvars_to_update, hostvars_to_update_files_orig,
                   changed, lit_idx, ansible_facts, owner, loaded, files_target, lit_target,
                   lit_changed, any_lit_changed>>

\* lines 139-141: the loop over args['files'] is over; the load loop starts
StartLoading ==
    /\ pc = "resolve"
    /\ src_idx > Len(args.files)
    /\ pc' = "load"
    /\ hostvars_to_update_files_orig' = EmptyDict
    /\ idx' = 1
    /\ UNCHANGED <<inputs, outside, src_idx, files, included, aliased, hostvars_to_update,
                   changed, lit_idx, error, display, ansible_facts, owner, loaded,
                   files_target, lit_target, lit_changed, any_lit_changed>>

\* lines 141-164: one file name of the list 'files'
LoadFile ==
    /\ pc = "load"
    /\ idx <= Len(files)
    /\ Len(loaded) < MaxLoads
    /\ LET filename == files[idx]
       IN IF extension_allowed(args, filename)
          THEN LET cur_file_vars == load_from_file(filename)
                   seeded == preseed(DOMAIN cur_file_vars, task_vars,
                                     [target |-> hostvars_to_update,
                                      orig |-> hostvars_to_update_files_orig])
               IN /\ loaded' = Append(loaded, filename)
                  /\ hostvars_to_update_files_orig' = seeded.orig
                  /\ hostvars_to_update' = merge_hash(seeded.target, cur_file_vars)
                  /\ owner' = merged_owner(seeded_owner(owner, DOMAIN seeded.target),
                                            DOMAIN cur_file_vars)
                  /\ included' = Append(included, filename)
                  /\ files' = IF aliased THEN Append(files, filename) ELSE files
                  /\ UNCHANGED display
          ELSE /\ display' = Append(display, Message("extension not allowed", "", filename))
               /\ UNCHANGED <<loaded, hostvars_to_update_files_orig, hostvars_to_update,
                              owner, included, files>>
    /\ idx' = idx + 1
    /\ UNCHANGED <<inputs, outside, pc, src_idx, aliased, changed, lit_idx, error,
                   ansible_facts, files_target, lit_target, lit_changed, any_lit_changed>>

\* line 148: load_from_file raises for a file it cannot read or parse
LoadFileFails ==
    /\ pc = "load"
    /\ idx <= Len(files)
    /\ Len(loaded) < MaxLoads
    /\ extension_allowed(args, files[idx])
    /\ may_fail_to_load(files[idx])
    /\ pc' = "failed"
    /\ error' = Fail("loader error", files[idx])
    /\ UNCHANGED <<inputs, outside, src_idx, files, included, aliased, idx,
                   hostvars_to_update, hostvars_to_update_files_orig, changed, lit_idx,
                   display, ansible_facts, owner, loaded, files_target, lit_target,
                   lit_changed, any_lit_changed>>

\* the warnings of lines 166-167, one for each key of ks
RECURSIVE unmergable_warnings(_)
unmergable_warnings(ks) ==
    IF ks = {} THEN <<>>
    ELSE LET k == CHOOSE j \in ks : TRUE
         IN <<Message("also in extra_vars", k, <<>>)>> \o unmergable_warnings(ks \ {k})

\* lines 166-175: the load loop is over; extra_vars win, and the diff sets 'changed'
FinishFiles ==
    /\ pc = "load"
    /\ idx > Len(files)
    /\ LET unmergable == (DOMAIN hostvars_to_update) \cap (DOMAIN extra_vars)
           target == protect(unmergable, hostvars_to_update, extra_vars)
           hostvars_files_diff == deep_diff(hostvars_to_update_files_orig, target, "")
       IN /\ hostvars_to_update' = target
          /\ files_target' = target
          /\ owner' = [k \in DOMAIN target |->
                          IF k \in unmergable THEN "extra_vars" ELSE owner[k]]
          /\ display' = display \o unmergable_warnings(unmergable)
          /\ changed' = IF hostvars_files_diff # {} THEN TRUE ELSE changed
    /\ pc' = "literals"
    /\ UNCHANGED <<inputs, outside, src_idx, files, included, aliased, idx,
                   hostvars_to_update_files_orig, lit_idx, error, ansible_facts, loaded,
                   lit_target, lit_changed, any_lit_changed>>

\* lines 177-179: 'literals' has to be a list
CheckLiterals ==
    /\ pc = "literals"
    /\ IF "literals" \in args.keys /\ ~args.literals_is_list
       THEN /\ pc' = "failed"
            /\ error' = Fail("literals must be a list", <<>>)
       ELSE /\ pc' = "lit_loop"
            /\ UNCHANGED error
    /\ lit_idx' = 1
    /\ UNCHANGED <<inputs, outside, src_idx, files, included, aliased, idx,
                   hostvars_to_update, hostvars_to_update_files_orig, changed, display,
                   ansible_facts, owner, loaded, files_target, lit_target, lit_changed,
                   any_lit_changed>>

\* lines 181-211: one item of args['literals']
ApplyLiteral ==
    /\ pc = "lit_loop"
    /\ lit_idx <= Len(Literals)
    /\ LET item == Literals[lit_idx]
           keys == path_keys(item.path)
           new_value == item.value
       IN IF ~is_literal_item(item)
          THEN /\ pc' = "failed"
               /\ error' = Fail("item must be a dict with path and value", <<>>)
               /\ UNCHANGED <<task_vars, extra_vars, hostvars_to_update,
                              hostvars_to_update_files_orig, owner, changed, display,
                              lit_idx, lit_target, lit_changed, any_lit_changed>>
          ELSE IF Len(keys) = 0
          THEN /\ pc' = "failed"
               /\ error' = Fail("path cannot be empty", <<>>)
               /\ UNCHANGED <<task_vars, extra_vars, hostvars_to_update,
                              hostvars_to_update_files_orig, owner, changed, display,
                              lit_idx, lit_target, lit_changed, any_lit_changed>>
          ELSE IF cannot_merge(keys, extra_vars)
          THEN /\ display' = Append(display, Message("also in extra_vars", keys[1], <<>>))
               /\ lit_idx' = lit_idx + 1
               /\ lit_target' = hostvars_to_update
               /\ lit_changed' = FALSE
               /\ UNCHANGED <<task_vars, extra_vars, hostvars_to_update,
                              hostvars_to_update_files_orig, owner, changed, pc, error,
                              any_lit_changed>>
          ELSE LET target == seed_literal(hostvars_to_update, task_vars, keys[1])
                   owners == seeded_owner(owner, DOMAIN target)
                   result == assign(target, keys, new_value)
                   through == written_object(target, owners, keys)
               IN /\ hostvars_to_update' = result
                  /\ owner' = IF through = "own" THEN Put(owners, keys[1], "own") ELSE owners
                  /\ task_vars' = IF through = "task_vars"
                                  THEN Put(task_vars, keys[1], result[keys[1]])
                                  ELSE task_vars
                  /\ hostvars_to_update_files_orig' =
                        IF through = "task_vars" /\ keys[1] \in DOMAIN hostvars_to_update_files_orig
                        THEN Put(hostvars_to_update_files_orig, keys[1], result[keys[1]])
                        ELSE hostvars_to_update_files_orig
                  /\ extra_vars' = IF through = "extra_vars"
                                   THEN Put(extra_vars, keys[1], result[keys[1]])
                                   ELSE extra_vars
                  /\ changed' = IF literal_changed(target, keys, new_value)
                                THEN TRUE ELSE changed
                  /\ lit_idx' = lit_idx + 1
                  /\ lit_target' = target
                  /\ lit_changed' = literal_changed(target, keys, new_value)
                  /\ any_lit_changed' = (any_lit_changed
                                         \/ literal_changed(target, keys, new_value))
                  /\ UNCHANGED <<display, pc, error>>
    /\ UNCHANGED <<args, outside, src_idx, files, included, aliased, idx, ansible_facts,
                   loaded, files_target>>

\* lines 213-214: the result is returned
Return ==
    /\ pc = "lit_loop"
    /\ lit_idx > Len(Literals)
    /\ ansible_facts' = hostvars_to_update
    /\ pc' = "done"
    /\ first_facts' = IF run = 1 THEN hostvars_to_update ELSE first_facts
    /\ UNCHANGED <<inputs, run, pure, src_idx, files, included, aliased, idx,
                   hostvars_to_update, hostvars_to_update_files_orig, changed, lit_idx,
                   error, display, owner, loaded, files_target, lit_target, lit_changed,
                   any_lit_changed>>

Next ==
    \/ Validate
    \/ ResolveSource
    \/ StartLoading
    \/ LoadFile
    \/ LoadFileFails
    \/ FinishFiles
    \/ CheckLiterals
    \/ ApplyLiteral
    \/ Return

Spec == Init /\ [][Next]_vars

(***************************************************************************)
(* Notions the properties are stated with.                                 *)
(***************************************************************************)
\* the run has returned its result
Completed == pc = "done"

\* the option keys the plugin recognises
RecognisedOptions == {"files", "literals", "ignore_missing_files", "extensions"}

\* the keys of the i-th literal's path
KeysOf(i) == path_keys(Literals[i].path)

\* a literal has just been handled: the loop over the literals has moved past it
AfterLiteral == pc \in {"lit_loop", "done", "failed"} /\ lit_idx > 1

\* the literal handled last was applied to the target
LastApplied ==
    /\ AfterLiteral
    /\ Literals[lit_idx - 1].ok
    /\ KeysOf(lit_idx - 1)[1] \notin DOMAIN extra_vars

(***************************************************************************)
(* C1: in every run that completes, each top-level key of the returned     *)
(* tree that extra_vars holds has exactly the extra_vars value, whatever   *)
(* task_vars, the files and the literals contain.                          *)
(***************************************************************************)
C1_ProtectedKeysPinned ==
    Completed =>
        \A k \in (DOMAIN ansible_facts) \cap (DOMAIN extra_vars) :
            ansible_facts[k] = extra_vars[k]

\* a completed run in which a file defined the protected key a with another value,
\* task_vars held the key, and a literal addressed a path under it
C1_Witness ==
    /\ Completed
    /\ "a" \in (DOMAIN ansible_facts) \cap (DOMAIN extra_vars) \cap (DOMAIN task_vars)
    /\ \E i \in 1..Len(loaded) :
          /\ "a" \in DOMAIN load_from_file(loaded[i])
          /\ load_from_file(loaded[i])["a"] # extra_vars["a"]
    /\ \E i \in 1..Len(Literals) : Literals[i].ok /\ KeysOf(i)[1] = "a" /\ Len(KeysOf(i)) > 1

(***************************************************************************)
(* C6: a run whose options hold an unrecognised key, or neither 'files'    *)
(* nor 'literals', fails with the configuration error before any source is *)
(* resolved or loaded and before anything is merged or assigned; it        *)
(* returns no tree.                                                        *)
(***************************************************************************)
C6_InvalidOptionsFailFirst ==
    (args.keys \ RecognisedOptions # {} \/ args.keys \cap {"files", "literals"} = {}) =>
        /\ pc \in {"start", "failed"}
        /\ pc = "failed" =>
              error.msg \in {"not valid options", "files or literals should be present"}
        /\ files = <<>> /\ included = <<>> /\ loaded = <<>>
        /\ src_idx = 1 /\ idx = 1 /\ lit_idx = 1
        /\ hostvars_to_update = EmptyDict
        /\ ansible_facts = EmptyDict
        /\ ~changed

\* a failed run that had an unrecognised key beside sources and literals to work on
C6_Witness ==
    /\ pc = "failed"
    /\ args.keys \ RecognisedOptions # {}
    /\ args.files # <<>>
    /\ args.literals # <<>>
    /\ error.msg = "not valid options"

(***************************************************************************)
(* Trees as the properties read them.                                      *)
(***************************************************************************)
RECURSIVE MappingAt(_, _)
\* the mapping a literal finds at a prefix of its path: the mapping held there, or
\* the empty mapping where the prefix is missing or holds no mapping
MappingAt(tree, prefix) ==
    IF prefix = <<>> THEN tree
    ELSE IF Head(prefix) \in DOMAIN tree /\ tree[Head(prefix)].t = "dict"
         THEN MappingAt(tree[Head(prefix)].m, Tail(prefix))
         ELSE EmptyDict

RECURSIVE HasMappingAt(_, _)
\* the tree holds a mapping at every step of the prefix
HasMappingAt(tree, prefix) ==
    \/ prefix = <<>>
    \/ /\ Head(prefix) \in DOMAIN tree
       /\ tree[Head(prefix)].t = "dict"
       /\ HasMappingAt(tree[Head(prefix)].m, Tail(prefix))

Prefix(keys, n) == SubSeq(keys, 1, n)

TreeABC5 == "a" :> Dict("b" :> Dict("c" :> IntV(5)))

PathABC == <<"a", ".", "b", ".", "c">>

(***************************************************************************)
(* C8: a literal applied to a target (first segment not protected) leaves  *)
(* a tree that holds the value at the path, with a mapping at every        *)
(* intermediate segment (created where the segment was missing or held no  *)
(* mapping), and in each mapping along the path every other key as it was; *)
(* a.b.c = 5 on {} gives {a:{b:{c:5}}} and marks changed, and the same     *)
(* literal again leaves the tree equal and does not mark changed.          *)
(***************************************************************************)
C8_LiteralSetsPath ==
    LastApplied =>
        LET keys == KeysOf(lit_idx - 1)
            n == Len(keys)
            value == Literals[lit_idx - 1].value
        IN /\ HasMappingAt(hostvars_to_update, Prefix(keys, n - 1))
           /\ keys[n] \in DOMAIN MappingAt(hostvars_to_update, Prefix(keys, n - 1))
           /\ MappingAt(hostvars_to_update, Prefix(keys, n - 1))[keys[n]] = value
           /\ \A i \in 1..n :
                LET before == MappingAt(lit_target, Prefix(keys, i - 1))
                    after == MappingAt(hostvars_to_update, Prefix(keys, i - 1))
                IN /\ DOMAIN after = (DOMAIN before) \cup {keys[i]}
                   /\ \A k \in (DOMAIN before) \ {keys[i]} : after[k] = before[k]
           /\ (Literals[lit_idx - 1].path = PathABC /\ value = IntV(5)) =>
                /\ lit_target = EmptyDict => hostvars_to_update = TreeABC5 /\ lit_changed
                /\ lit_target = TreeABC5 => hostvars_to_update = TreeABC5 /\ ~lit_changed

\* a.b.c = 5 applied a second time to the tree the first application made from {}
C8_Witness ==
    /\ LastApplied
    /\ lit_idx = 3
    /\ "files" \notin args.keys
    /\ Literals[1] = Lit(PathABC, IntV(5))
    /\ Literals[2] = Lit(PathABC, IntV(5))
    /\ task_vars = EmptyDict
    /\ lit_target = TreeABC5
    /\ hostvars_to_update = TreeABC5
    /\ ~lit_changed

\* a.b.c = 5 applied where a.b held a number and a held other keys
C8_ReplacedIntermediate ==
    /\ LastApplied
    /\ Literals[lit_idx - 1] = Lit(PathABC, IntV(5))
    /\ "a" \in DOMAIN lit_target
    /\ lit_target["a"].t = "dict"
    /\ "b" \in DOMAIN lit_target["a"].m
    /\ lit_target["a"].m["b"].t = "int"
    /\ DOMAIN lit_target["a"].m # {"b"}

(***************************************************************************)
(* C9: a literal whose first path segment is a key of extra_vars is not    *)
(* applied: the step leaves the target (the key is not seeded from         *)
(* task_vars either) and the changed flag as they were, emits the warning  *)
(* for that key, and goes on to the next literal.                          *)
(***************************************************************************)
C9_ProtectedLiteralSkipped ==
    [][ ( /\ pc = "lit_loop"
          /\ lit_idx <= Len(Literals)
          /\ Literals[lit_idx].ok
          /\ KeysOf(lit_idx)[1] \in DOMAIN extra_vars )
        => ( /\ hostvars_to_update' = hostvars_to_update
             /\ changed' = changed
             /\ display' = Append(display, Message("also in extra_vars", KeysOf(lit_idx)[1], <<>>))
             /\ pc' = "lit_loop"
             /\ lit_idx' = lit_idx + 1
             /\ error' = error ) ]_vars

\* the literal just skipped named a protected key that task_vars holds and the target
\* lacks, and another literal follows it
C9_Witness ==
    /\ pc = "lit_loop"
    /\ lit_idx = 2
    /\ Len(Literals) = 2
    /\ Literals[1].ok
    /\ KeysOf(1)[1] \in (DOMAIN extra_vars) \cap (DOMAIN task_vars)
    /\ KeysOf(1)[1] \notin DOMAIN hostvars_to_update
    /\ display # <<>>

(***************************************************************************)
(* What a run is expected to resolve, load and build.                      *)
(***************************************************************************)
\* the expansion of one entry of 'files'
Expansion(entry) ==
    IF isfile(entry) THEN <<entry>>
    ELSE IF isdir(entry)
    THEN Sorted({Join(entry, child) : child \in {c \in listdir(entry) : isfile(Join(entry, c))}})
    ELSE <<>>

RECURSIVE Resolved(_)
\* the expansions of the entries, concatenated in the order of the entries
Resolved(entries) ==
    IF entries = <<>> THEN <<>> ELSE Expansion(Head(entries)) \o Resolved(Tail(entries))

\* s is a leading part of t
IsPrefix(s, t) == Len(s) <= Len(t) /\ s = SubSeq(t, 1, Len(s))

\* the resolved paths that pass the extension filter, in order
Allowed(paths) == SelectSeq(paths, LAMBDA f : extension_allowed(args, f))

\* the entries of 'files' that are neither a file nor a directory
MissingEntries == {i \in 1..Len(args.files) : ~isfile(args.files[i]) /\ ~isdir(args.files[i])}

RECURSIVE FoldSources(_, _)
\* the deep merge of the source trees into a tree, first to last
FoldSources(tree, paths) ==
    IF paths = <<>> THEN tree
    ELSE FoldSources(merge_hash(tree, load_from_file(Head(paths))), Tail(paths))

RECURSIVE FoldLiterals(_, _)
\* the literals assigned into a tree, first to last
FoldLiterals(tree, lits) ==
    IF lits = <<>> THEN tree
    ELSE FoldLiterals(assign(tree, path_keys(Head(lits).path), Head(lits).value), Tail(lits))

\* a run over concrete files and well-formed literals, with nothing pinned, no
\* variables beforehand and no extension filter
ConcreteFilesRun ==
    /\ "files" \in args.keys
    /\ args.keys \subseteq {"files", "literals"}
    /\ \A i \in 1..Len(args.files) : isfile(args.files[i])
    /\ args.literals_is_list
    /\ \A i \in 1..Len(args.literals) : args.literals[i].ok /\ args.literals[i].path # <<>>
    /\ task_vars = EmptyDict
    /\ extra_vars = EmptyDict

(***************************************************************************)
(* C2: a run over concrete files and literals completes (it loads each     *)
(* listed file once and fails only if the loader does) and returns the     *)
(* left fold of the deep merge over the source trees in list order, then   *)
(* the literals in list order; f1.yml -> {a:{x:1}}, f2.txt -> {a:{y:2},   *)
(* b:3} and the literal a.z = 9 give {a:{x:1, y:2, z:9}, b:3}, changed.    *)
(***************************************************************************)
C2_FoldOfSourcesThenLiterals ==
    ConcreteFilesRun =>
        /\ pc = "failed" => error.msg = "loader error"
        /\ IsPrefix(loaded, args.files)
        /\ Completed =>
              ansible_facts = FoldLiterals(FoldSources(EmptyDict, args.files), args.literals)
        /\ (Completed /\ args.files = <<F1, F2>>
                /\ args.literals = <<Lit(<<"a", ".", "z">>, IntV(9))>>) =>
              /\ ansible_facts = ("a" :> Dict(("x" :> IntV(1)) @@ ("y" :> IntV(2)) @@ ("z" :> IntV(9))))
                                 @@ ("b" :> IntV(3))
              /\ changed

(***************************************************************************)
(* C3: when 'files' holds an entry that is neither a file nor a directory, *)
(* then without ignore_missing_files the run fails with the error naming   *)
(* that entry, and with it the run succeeds (no such error, and it loads   *)
(* each resolved path once) and the entry is not among the included files, *)
(* wherever the entry stands and whatever the other entries are.           *)
(***************************************************************************)
C3_MissingSourcePolicy ==
    ("files" \in args.keys /\ args.keys \subseteq RecognisedOptions /\ MissingEntries # {}) =>
        LET first == CHOOSE i \in MissingEntries : \A j \in MissingEntries : i <= j
        IN IF args.ignore_missing_files
           THEN /\ error.msg # "source does not exist"
                /\ \A i \in MissingEntries, j \in 1..Len(included) : included[j] # args.files[i]
                /\ IsPrefix(loaded, Allowed(Resolved(args.files)))
           ELSE /\ pc \in {"start", "resolve", "failed"}
                /\ pc = "failed" => error = Fail("source does not exist", args.files[first])
                /\ loaded = <<>>

(***************************************************************************)
(* C4: when a run with 'files' completes, the included files are exactly   *)
(* the paths that were loaded, in load order, each once per load.          *)
(***************************************************************************)
C4_IncludedAreTheLoaded ==
    (Completed /\ "files" \in args.keys) => included = loaded

(***************************************************************************)
(* C5: the resolver's list is the concatenation, in the order of the       *)
(* entries, of each entry's expansion (a file itself, a directory its      *)
(* direct file children sorted, a tolerated missing entry nothing), and    *)
(* the sources are loaded in exactly that order; [d1, f1.yml] resolves to  *)
(* [d1/a.yml, d1/b.yml, f1.yml].                                           *)
(***************************************************************************)
C5_ResolvedInEntryOrder ==
    /\ (pc = "load" /\ idx = 1) =>
          /\ files = Resolved(args.files)
          /\ args.files = <<D1, F1>> => files = <<Join(D1, A_YML), Join(D1, B_YML), F1>>
    /\ pc \in {"load", "literals", "lit_loop", "done"} =>
          IsPrefix(loaded, Allowed(Resolved(args.files)))
    /\ pc \in {"literals", "lit_loop", "done"} /\ "files" \in args.keys =>
          loaded = Allowed(Resolved(args.files))

(***************************************************************************)
(* C7: a literal that is applied marks changed if and only if its final    *)
(* key was missing from its parent mapping before the assignment, or held  *)
(* a value different from the literal's.                                   *)
(***************************************************************************)
C7_ChangedIffDifferent ==
    LastApplied =>
        LET keys == KeysOf(lit_idx - 1)
            n == Len(keys)
            parent == MappingAt(lit_target, Prefix(keys, n - 1))
        IN lit_changed <=> (keys[n] \notin DOMAIN parent
                            \/ parent[keys[n]] # Literals[lit_idx - 1].value)

(***************************************************************************)
(* C10: a run does not get past a literal with an empty path: it fails     *)
(* with the empty-path error, returns no tree and creates no key for it.   *)
(***************************************************************************)
C10_EmptyPathFails ==
    /\ \A i \in 1..Len(Literals) :
          (Literals[i].ok /\ Literals[i].path = <<>>) =>
              /\ lit_idx <= i
              /\ ~Completed
    /\ "" \notin DOMAIN hostvars_to_update

\* the extension of the path is one of the configured filter
InFilter(filename) == \E i \in 1..Len(args.extensions) : args.extensions[i] = Extension(filename)

(***************************************************************************)
(* C11: when 'extensions' is supplied, the empty list included, no path    *)
(* whose extension is not in the list is loaded or listed among the        *)
(* included files, each such path is skipped with a diagnostic and the run *)
(* goes on; when 'extensions' is omitted no path is filtered.              *)
(***************************************************************************)
C11_ExtensionFilter ==
    /\ "extensions" \in args.keys =>
          /\ \A i \in 1..Len(loaded) : InFilter(loaded[i])
          /\ Completed => \A i \in 1..Len(included) : InFilter(included[i])
          /\ (pc = "load" /\ ~aliased) =>
                \A i \in 1..(idx - 1) :
                    ~InFilter(files[i]) =>
                        Message("extension not allowed", "", files[i]) \in
                            {display[j] : j \in 1..Len(display)}
    /\ "extensions" \notin args.keys =>
          \A j \in 1..Len(display) : display[j].msg # "extension not allowed"

(***************************************************************************)
(* deep_diff and merge_hash on their own: the inputs are drawn at the      *)
(* start, each action is one use of deep_diff, no run of the task is       *)
(* under way.                                                              *)
(***************************************************************************)
PureKeys == {"k", "j"}

PureValues ==
    {None, IntV(1), Dict(EmptyDict), Dict("x" :> IntV(1)),
     Dict(("x" :> IntV(2)) @@ ("y" :> IntV(3))), Dict("x" :> Dict("z" :> IntV(1)))}

PureTrees == UNION {[ks -> PureValues] : ks \in SUBSET PureKeys}

PureInit ==
    /\ pure \in [fn : {""}, T : PureTrees, k : PureKeys, v : PureValues, out : {<<>>}]
    /\ args = [keys |-> {}, files |-> <<>>, literals |-> <<>>, literals_is_list |-> TRUE,
               ignore_missing_files |-> FALSE, extensions |-> <<>>]
    /\ task_vars = EmptyDict
    /\ extra_vars = EmptyDict
    /\ pc = "start"
    /\ src_idx = 1
    /\ files = <<>>
    /\ included = <<>>
    /\ aliased = FALSE
    /\ idx = 1
    /\ hostvars_to_update = EmptyDict
    /\ hostvars_to_update_files_orig = EmptyDict
    /\ changed = FALSE
    /\ lit_idx = 1
    /\ error = NoError
    /\ display = <<>>
    /\ ansible_facts = EmptyDict
    /\ owner = EmptyDict
    /\ loaded = <<>>
    /\ files_target = EmptyDict
    /\ lit_target = EmptyDict
    /\ lit_changed = FALSE
    /\ any_lit_changed = FALSE
    /\ run = 1
    /\ first_facts = EmptyDict

\* deep_diff(T, T)
DiffSelf ==
    /\ pure.fn = ""
    /\ pure' = [pure EXCEPT !.fn = "diff_self", !.out = <<deep_diff(pure.T, pure.T, "")>>]
    /\ UNCHANGED run_vars

\* deep_diff(T, merge_hash(T, {k: v}))
DiffOfMerge ==
    /\ pure.fn = ""
    /\ pure' = [pure EXCEPT !.fn = "diff_of_merge",
                            !.out = <<deep_diff(pure.T, merge_hash(pure.T, pure.k :> pure.v), "")>>]
    /\ UNCHANGED run_vars

\* deep_diff of {k: v} with {} and with {k: null}, either way round
DiffOneSided ==
    /\ pure.fn = ""
    /\ pure' = [pure EXCEPT !.fn = "diff_one_sided",
                            !.out = <<deep_diff(pure.k :> pure.v, EmptyDict, ""),
                                      deep_diff(pure.k :> pure.v, pure.k :> None, ""),
                                      deep_diff(EmptyDict, pure.k :> pure.v, ""),
                                      deep_diff(pure.k :> None, pure.k :> pure.v, "")>>]
    /\ UNCHANGED run_vars

PureNext == DiffSelf \/ DiffOfMerge \/ DiffOneSided

PureSpec == PureInit /\ [][PureNext]_vars

\* the call diffed T with merge(T, {k: v}) for a v that differs from T[k]
MergedOtherValue ==
    /\ pure.fn = "diff_of_merge"
    /\ pure.k \notin DOMAIN pure.T \/ pure.T[pure.k] # pure.v

\* v and T[k] are both mappings
BothMappings == pure.k \in DOMAIN pure.T /\ IsDict(pure.T[pure.k]) /\ IsDict(pure.v)

\* the dotted paths below the key k that the drawn values reach
PathsBelow(k) == {k \o "." \o p : p \in {"x", "y", "x.z"}}

(***************************************************************************)
(* C12 as stated: deep_diff(T, T) is empty, and deep_diff(T, merge(T,      *)
(* {k: v})) holds exactly one entry, for the key k, whenever v differs     *)
(* from T[k] or k is absent from T, mappings included.                     *)
(***************************************************************************)
C12_ExactlyOneEntry ==
    /\ pure.fn = "diff_self" => pure.out[1] = {}
    /\ MergedOtherValue =>
          /\ Cardinality(pure.out[1]) = 1
          /\ \A e \in pure.out[1] : e[1] = pure.k

(***************************************************************************)
(* C12, amended: deep_diff(T, T) is empty; deep_diff(T, merge(T, {k: v}))  *)
(* for v different from T[k] (or k absent) is the one entry (k, T[k] or    *)
(* None, v) unless v and T[k] are both mappings; when they are, every      *)
(* entry is for a path below k, not for k, and there is none exactly when  *)
(* the merge leaves T as it was.                                           *)
(***************************************************************************)
C12_OneEntryUnlessBothMappings ==
    /\ pure.fn = "diff_self" => pure.out[1] = {}
    /\ MergedOtherValue =>
          IF BothMappings
          THEN /\ \A e \in pure.out[1] : e[1] \in PathsBelow(pure.k)
               /\ pure.out[1] = {} <=> merge_hash(pure.T, pure.k :> pure.v) = pure.T
          ELSE pure.out[1] = {<<pure.k,
                                IF pure.k \in DOMAIN pure.T THEN pure.T[pure.k] ELSE None,
                                pure.v>>}

\* a merge of a mapping into a mapping that differs from it in two sub-keys
C12_Witness ==
    /\ MergedOtherValue
    /\ BothMappings
    /\ Cardinality(pure.out[1]) = 2

(***************************************************************************)
(* C16: the entry deep_diff records for a key held by one side only marks  *)
(* the missing side so that it differs from an explicit null: the lists    *)
(* for ({k: v}, {}) and ({k: v}, {k: null}) differ, and so do the lists    *)
(* for ({}, {k: v}) and ({k: null}, {k: v}).                               *)
(***************************************************************************)
C16_AbsentIsNotNull ==
    pure.fn = "diff_one_sided" =>
        /\ pure.out[1] # pure.out[2]
        /\ pure.out[3] # pure.out[4]

\* the run ended in an error: the exception left run() and nothing was returned
Failed == pc = "failed"

(***************************************************************************)
(* C13: every fatal condition (invalid options, a missing source without   *)
(* tolerance, 'literals' that is no list, a literal item that is no        *)
(* path/value pair, a failure of the loader) ends the run in an error      *)
(* state that returns nothing, wherever it is detected: the run never gets *)
(* past the condition, an error is never followed by a result, and a       *)
(* malformed literal after valid ones and a file phase yields the error    *)
(* only.                                                                   *)
(***************************************************************************)
C13_FatalDeliversNothing ==
    /\ Failed <=> error # NoError
    /\ Failed => ansible_facts = EmptyDict
    /\ Completed => error = NoError
    /\ (args.keys \ RecognisedOptions # {} \/ args.keys \cap {"files", "literals"} = {}) =>
          pc \in {"start", "failed"}
    /\ ("files" \in args.keys /\ args.keys \subseteq RecognisedOptions
            /\ ~args.ignore_missing_files) =>
          \A i \in MissingEntries : src_idx <= i /\ pc \in {"start", "resolve", "failed"}
    /\ ("literals" \in args.keys /\ ~args.literals_is_list) =>
          pc \notin {"lit_loop", "done"}
    /\ \A i \in 1..Len(Literals) :
          ~Literals[i].ok => (lit_idx <= i /\ ~Completed)
    /\ error.msg = "loader error" =>
          /\ idx <= Len(files) /\ error.subject = files[idx]

\* a malformed literal met after a file phase that built a tree and marked the run
\* changed, and after a valid literal
C13_Witness ==
    /\ Failed
    /\ error.msg = "item must be a dict with path and value"
    /\ lit_idx = 2
    /\ loaded # <<>>
    /\ hostvars_to_update # EmptyDict
    /\ changed
    /\ ansible_facts = EmptyDict

\* the top-level keys the loaded sources name
LoadedKeys == UNION {DOMAIN load_from_file(loaded[i]) : i \in 1..Len(loaded)}

\* the Baseline values of the keys the file phase seeded
SeededBaseline == [k \in LoadedKeys \cap DOMAIN task_vars |-> task_vars[k]]

\* a tree with every protected key pinned to its extra_vars value
Pinned(tree) ==
    [k \in DOMAIN tree |-> IF k \in DOMAIN extra_vars THEN extra_vars[k] ELSE tree[k]]

\* the file phase is over
FilesDone == pc \in {"literals", "lit_loop", "done"}

(***************************************************************************)
(* C14: the changed flag of a completed run is true if and only if the     *)
(* pre-seeded Baseline subset (the Baseline values of the seeded top-level *)
(* keys) differs structurally from the target as it stood after the file   *)
(* phase and the protected-key overwrite, or some applied literal reported *)
(* a change; the two sides of the diff are that subset and the pinned      *)
(* merge of the loaded sources over it.                                    *)
(***************************************************************************)
C14_ChangedIffDiffOrLiteral ==
    /\ Completed =>
          (changed <=> (hostvars_to_update_files_orig # files_target \/ any_lit_changed))
    /\ (FilesDone /\ "files" \in args.keys) =>
          /\ hostvars_to_update_files_orig = SeededBaseline
          /\ files_target = Pinned(FoldSources(SeededBaseline, loaded))
    /\ (FilesDone /\ "files" \notin args.keys) =>
          /\ hostvars_to_update_files_orig = EmptyDict
          /\ files_target = EmptyDict

\* a completed run whose sources restate the Baseline or redefine a protected key
\* whose Baseline value is the pinned one, and whose literal goes for a protected
\* key: nothing changed
C14_Witness ==
    /\ Completed
    /\ ~changed
    /\ Len(loaded) = 2
    /\ \E i \in 1..Len(loaded) :
          \E k \in DOMAIN load_from_file(loaded[i]) :
              /\ k \in (DOMAIN extra_vars) \cap (DOMAIN task_vars)
              /\ load_from_file(loaded[i])[k] # task_vars[k]
    /\ \E i \in 1..Len(loaded) :
          \E k \in DOMAIN load_from_file(loaded[i]) :
              /\ k \in (DOMAIN task_vars) \ (DOMAIN extra_vars)
              /\ load_from_file(loaded[i])[k] = task_vars[k]
    /\ Len(Literals) = 1
    /\ Literals[1].ok
    /\ KeysOf(1)[1] \in DOMAIN extra_vars

\* the value a source's value y gives when merged onto a value x
MergedOnto(x, y) == IF IsDict(x) /\ IsDict(y) THEN Dict(merge_hash(x.m, y.m)) ELSE y

\* the step loads and merges a source
LoadStep == Len(loaded') = Len(loaded) + 1

\* the first keys of the literals applied so far
AppliedLiteralKeys ==
    {KeysOf(i)[1] : i \in {j \in 1..(lit_idx - 1) :
                              Literals[j].ok /\ KeysOf(j)[1] \notin DOMAIN extra_vars}}

\* the step applies the literal at lit_idx
LiteralStep ==
    /\ lit_idx' = lit_idx + 1
    /\ Literals[lit_idx].ok
    /\ KeysOf(lit_idx)[1] \notin DOMAIN extra_vars

\* the sub-keys of a seeded Baseline mapping that no loaded source overrides are in
\* the returned tree, for a key that is not protected and that no literal addressed
UntouchedSubKeysReturned ==
    Completed =>
        \A k \in (DOMAIN hostvars_to_update_files_orig)
                    \ ((DOMAIN extra_vars) \cup AppliedLiteralKeys) :
            (/\ IsDict(task_vars[k])
             /\ \A i \in 1..Len(loaded) :
                   k \in DOMAIN load_from_file(loaded[i]) => IsDict(load_from_file(loaded[i])[k]))
            => \A s \in DOMAIN task_vars[k].m :
                   (\A i \in 1..Len(loaded) :
                       k \in DOMAIN load_from_file(loaded[i])
                           => s \notin DOMAIN load_from_file(loaded[i])[k].m)
                   => /\ s \in DOMAIN ansible_facts[k].m
                      /\ ansible_facts[k].m[s] = task_vars[k].m[s]

(***************************************************************************)
(* C15: seeding precedes merging, once per top-level key. In every step    *)
(* that loads a source, each top-level key of the source that the target   *)
(* lacks and the Baseline holds gets the source's value merged onto the    *)
(* Baseline's value, a key the target holds gets it merged onto the        *)
(* target's value (the Baseline is not copied again), a key of neither     *)
(* gets the source's value, and the keys the source does not name stay as  *)
(* they are; the before-side of the diff gains the Baseline value of each  *)
(* key seeded in the step and keeps the others. Baseline sub-keys that no  *)
(* source overrides are in the returned tree. No other step adds a key to  *)
(* the target but one that applies a literal, and that adds the literal's  *)
(* first key only, so no top-level key comes into the target that no       *)
(* loaded source and no applied literal names.                             *)
(***************************************************************************)
C15_SeedOnceBeforeMerge ==
    [][/\ LoadStep =>
            LET cur_file_vars == load_from_file(loaded'[Len(loaded')])
                seeded == {k \in DOMAIN cur_file_vars :
                              k \notin DOMAIN hostvars_to_update /\ k \in DOMAIN task_vars}
            IN /\ DOMAIN hostvars_to_update' = (DOMAIN hostvars_to_update) \cup DOMAIN cur_file_vars
               /\ \A k \in DOMAIN cur_file_vars :
                     hostvars_to_update'[k] =
                         IF k \in DOMAIN hostvars_to_update
                         THEN MergedOnto(hostvars_to_update[k], cur_file_vars[k])
                         ELSE IF k \in DOMAIN task_vars
                         THEN MergedOnto(task_vars[k], cur_file_vars[k])
                         ELSE cur_file_vars[k]
               /\ \A k \in (DOMAIN hostvars_to_update) \ DOMAIN cur_file_vars :
                     hostvars_to_update'[k] = hostvars_to_update[k]
               /\ DOMAIN hostvars_to_update_files_orig' =
                     (DOMAIN hostvars_to_update_files_orig) \cup seeded
               /\ \A k \in seeded : hostvars_to_update_files_orig'[k] = task_vars[k]
               /\ \A k \in DOMAIN hostvars_to_update_files_orig :
                     hostvars_to_update_files_orig'[k] = hostvars_to_update_files_orig[k]
       /\ (~LoadStep /\ hostvars_to_update' # hostvars_to_update) =>
             DOMAIN hostvars_to_update' \subseteq
                 (DOMAIN hostvars_to_update)
                     \cup (IF LiteralStep THEN {KeysOf(lit_idx)[1]} ELSE {})
       /\ ansible_facts' # ansible_facts => UntouchedSubKeysReturned']_vars

\* a second source names a key that the first source's load had seeded from the
\* Baseline, and the Baseline's sub-key is still under it
C15_Witness ==
    /\ Len(loaded) = 2
    /\ \E k \in (DOMAIN load_from_file(loaded[1])) \cap (DOMAIN load_from_file(loaded[2])) :
          /\ k \in DOMAIN hostvars_to_update_files_orig
          /\ IsDict(task_vars[k])
          /\ IsDict(hostvars_to_update[k])
          /\ \E s \in DOMAIN task_vars[k].m :
                /\ s \notin DOMAIN load_from_file(loaded[1])[k].m
                /\ s \notin DOMAIN load_from_file(loaded[2])[k].m
                /\ s \in DOMAIN hostvars_to_update[k].m

(***************************************************************************)
(* C17: no step of a run (seeding, merging a source, the protected-key     *)
(* overwrite, a literal that creates, replaces or overwrites nested nodes) *)
(* changes the Baseline (task_vars) or the values of the Protected Key Set *)
(* (extra_vars), and the before-side of the diff holds, after every step,  *)
(* the Baseline's own values of the seeded keys.                           *)
(***************************************************************************)
C17_BaselineNeverChanged ==
    [][/\ task_vars' = task_vars
       /\ extra_vars' = extra_vars
       /\ \A k \in DOMAIN hostvars_to_update_files_orig' :
             /\ k \in DOMAIN task_vars
             /\ hostvars_to_update_files_orig'[k] = task_vars[k]]_vars

\* a completed run in which a literal wrote below a top-level mapping seeded from
\* the Baseline, after a file phase that seeded keys of its own
C17_Witness ==
    /\ Completed
    /\ \E i \in 1..Len(Literals) :
          /\ Literals[i].ok
          /\ Len(KeysOf(i)) >= 2
          /\ KeysOf(i)[1] \in (DOMAIN task_vars) \ (DOMAIN extra_vars)
          /\ IsDict(task_vars[KeysOf(i)[1]])
          /\ owner[KeysOf(i)[1]] = "own"
          /\ ansible_facts[KeysOf(i)[1]] # task_vars[KeysOf(i)[1]]
    /\ hostvars_to_update_files_orig # EmptyDict

\* how many times x stands in the sequence
Occurrences(seq, x) == Cardinality({i \in 1..Len(seq) : seq[i] = x})

(***************************************************************************)
(* C18: a run over finite 'files' and 'literals' terminates, loading each  *)
(* resolved source at most once per occurrence in the resolved list,       *)
(* whatever the shape of 'files': at no point has a path been loaded more  *)
(* often than it occurs in the resolved list.                              *)
(***************************************************************************)
C18_LoadedAtMostOncePerOccurrence ==
    \A i \in 1..Len(loaded) :
        Occurrences(loaded, loaded[i]) <= Occurrences(Resolved(args.files), loaded[i])

(***************************************************************************)
(* The task run a second time: ansible has stored the returned             *)
(* ansible_facts as host variables, so the second run's task_vars hold     *)
(* every returned top-level key with the returned value.                   *)
(***************************************************************************)
Rerun ==
    /\ pc = "done"
    /\ run = 1
    /\ run' = 2
    /\ task_vars' = [k \in (DOMAIN task_vars) \cup (DOMAIN ansible_facts) |->
                        IF k \in DOMAIN ansible_facts THEN ansible_facts[k] ELSE task_vars[k]]
    /\ pc' = "start"
    /\ src_idx' = 1
    /\ files' = <<>>
    /\ included' = <<>>
    /\ aliased' = FALSE
    /\ idx' = 1
    /\ hostvars_to_update' = EmptyDict
    /\ hostvars_to_update_files_orig' = EmptyDict
    /\ changed' = FALSE
    /\ lit_idx' = 1
    /\ error' = NoError
    /\ display' = <<>>
    /\ ansible_facts' = EmptyDict
    /\ owner' = EmptyDict
    /\ loaded' = <<>>
    /\ files_target' = EmptyDict
    /\ lit_target' = EmptyDict
    /\ lit_changed' = FALSE
    /\ any_lit_changed' = FALSE
    /\ UNCHANGED <<args, extra_vars, first_facts, pure>>

RerunNext == Next \/ Rerun

RerunSpec == Init /\ [][RerunNext]_vars

(***************************************************************************)
(* C19: re-running is idempotent: a second run with the same options and   *)
(* extra_vars, over the Baseline with every top-level key of the first     *)
(* run's tree set to that tree's value, that completes returns the same    *)
(* tree with changed = false.                                              *)
(***************************************************************************)
C19_RerunIdempotent ==
    (run = 2 /\ Completed) =>
        /\ ansible_facts = first_facts
        /\ ~changed

====
